---- MODULE Spec2Model ----
(***************************************************************************)
(* A model of ultrathink.py: the seven-step pipeline of UltraThink.run,    *)
(* the command-line dispatch of main, and the pure merge performed by      *)
(* UltraThink.optimize_configurations.                                    *)
(*                                                                         *)
(* Python dicts keep insertion order, and the code depends on it (sorted   *)
(* is stable, tools are appended in table order), so a dict is modelled as *)
(* a sequence of records [k |-> key, v |-> value] with distinct keys.      *)
(* Python sets of strings iterate in an order fixed by the process's hash  *)
(* seed; the seed is modelled by hashOrder, a permutation of the plugin    *)
(* names a shell configuration can hold, drawn when the process starts.    *)
(***************************************************************************)
EXTENDS Integers, Sequences, FiniteSets, TLC

(* ------------------------------ bounds ------------------------------- *)

\* Environment events in one run: a failed remote read, install or sync, a
\* failed feed, a malformed feed item, a well-formed feed item, a raised
\* exception, a user interruption.
MaxEvents == 2

\* Feed items scanned into the score table handed to the optimizer when the
\* optimizer is exercised on its own.
MaxPosts == 2

\* Length of the current plugin list handed to the optimizer.
MaxCurPlugins == 2

\* Calls of the optimizer on one and the same input.
MaxCalls == 2

(* ------------------------- program constants ------------------------- *)

TopN == 15
PluginMinScore == 500
ToolMinScore == 600
PostMinScore == 100
CommentMinScore == 500

servers == <<"oracle", "evertz">>

RemoteConfigs == <<".zshrc", ".tmux.conf">>

reddit_endpoints == <<"unixporn", "zsh", "tmux", "commandline", "vim">>

essential_tools ==
  <<"fzf", "ripgrep", "fd", "bat", "eza", "zoxide", "delta", "tldr", "jq",
    "httpie", "lazygit", "btop", "glow", "ncdu", "tmux", "gh", "starship">>

KV(key, val) == [k |-> key, v |-> val]

popular_plugins ==
  << KV("git", 1000), KV("zsh-autosuggestions", 2500),
     KV("zsh-syntax-highlighting", 2400), KV("zsh-completions", 1800),
     KV("fzf", 2200), KV("z", 1500), KV("extract", 1200), KV("docker", 1100),
     KV("kubectl", 900), KV("nvm", 800), KV("pyenv", 700),
     KV("thefuck", 1600), KV("autojump", 1300) >>

popular_aliases ==
  << KV("ll", "ls -alF"), KV("la", "ls -A"), KV("l", "ls -CF"),
     KV("..", "cd .."), KV("...", "cd ../.."), KV("g", "git"),
     KV("gc", "git commit"), KV("gp", "git push"), KV("gl", "git pull"),
     KV("gst", "git status"), KV("gd", "git diff"), KV("gco", "git checkout"),
     KV("gcb", "git checkout -b"), KV("k", "kubectl"), KV("d", "docker"),
     KV("dc", "docker-compose"), KV("vim", "nvim"), KV("cat", "bat"),
     KV("ls", "eza"), KV("find", "fd"), KV("grep", "rg"), KV("top", "btop") >>

popular_tools ==
  << KV("starship", 2000), KV("fzf", 2500), KV("ripgrep", 2200),
     KV("fd", 1800), KV("bat", 1900), KV("eza", 1700), KV("zoxide", 1600),
     KV("delta", 1400), KV("lazygit", 1500), KV("btop", 1300),
     KV("tldr", 1200), KV("httpie", 1000), KV("jq", 1100), KV("yq", 900),
     KV("glow", 800), KV("ncdu", 700) >>

(* ------------------------------- dicts ------------------------------- *)

Range(s) == {s[i] : i \in DOMAIN s}

NoDup(s) == \A i, j \in DOMAIN s : i # j => s[i] # s[j]

Keys(d) == {d[i].k : i \in DOMAIN d}

KeyList(d) == [i \in DOMAIN d |-> d[i].k]

IndexOf(d, key) == CHOOSE i \in DOMAIN d : d[i].k = key

Get(d, key) == d[IndexOf(d, key)].v

\* d[key] = val: an existing key keeps its position, a new key goes last.
DictSet(d, key, val) ==
  IF key \in Keys(d)
  THEN [i \in DOMAIN d |-> IF d[i].k = key THEN KV(key, val) ELSE d[i]]
  ELSE Append(d, KV(key, val))

RECURSIVE DictUpdate(_, _)
\* d.update(u)
DictUpdate(d, u) ==
  IF u = <<>> THEN d
  ELSE DictUpdate(DictSet(d, Head(u).k, Head(u).v), Tail(u))

Min(a, b) == IF a < b THEN a ELSE b

Take(s, n) == SubSeq(s, 1, Min(n, Len(s)))

SeqPerms(S) ==
  {s \in [1..Cardinality(S) -> S] : \A x \in S : \E i \in DOMAIN s : s[i] = x}

SeqsUpTo(S, n) == UNION {[1..m -> S] : m \in 0..n}

(* ------------------------------ state -------------------------------- *)

VARIABLES
  pc,           \* position of the process in main / UltraThink.run
  args,         \* parsed command line: [analyze_only, skip_reddit]
  exitStatus,   \* -1 while the process runs, then its exit status
  abort,        \* "none", "interrupt" or "error": what ended the flow early
  raisedAt,     \* the operation that raised the uncaught exception, or "none"
  steps,        \* the pipeline steps started so far, in order
  events,       \* environment events so far
  hashOrder,    \* iteration order of a set of plugin names in this process
  zshrc,        \* the file ~/.zshrc
  pathTools,    \* the essential tools found on PATH
  backupDirs,   \* per-server directories made under backup_dir
  backupFiles,  \* files written under backup_dir: <<owner, basename>>
  remoteLog,    \* remote-shell calls made: [step, target, config, outcome]
  srv,          \* index in servers of the per-server loop in progress
  cfg,          \* index in RemoteConfigs of the backup read in progress
  current,      \* result of analyze_current_configs
  feedLog,      \* feeds requested: [feed, outcome, scanned, contributed]
  reddit,       \* the recommendations dict
  optimized,    \* result of optimize_configurations
  generated,    \* files written under dotfiles_dir
  printed,      \* what the analyze-only branch printed
  returned      \* what the calls of optimize_configurations returned, in order

vars ==
  << pc, args, exitStatus, abort, raisedAt, steps, events,
     hashOrder, zshrc, pathTools, backupDirs, backupFiles, remoteLog, srv,
     cfg, current, feedLog, reddit, optimized, generated, printed,
     returned >>

(* -------------------------- recommendations -------------------------- *)

AddScore_Overwrite(table, plugin, score) == DictSet(table, plugin, score)

\* recommendations["zsh_plugins"][plugin] += score, creating the entry at 0.
AddScore(table, plugin, score) ==
  IF plugin \in Keys(table)
  THEN DictSet(table, plugin, Get(table, plugin) + score)
  ELSE DictSet(table, plugin, 0 + score)

RECURSIVE ExtractConfigs(_, _, _)
\* _extract_configs_from_text: plugins is the list of names the three
\* patterns find in the text, in match order (a name found twice is listed
\* twice); each occurrence adds the item's score.
ExtractConfigs(plugins, score, table) ==
  IF plugins = <<>> THEN table
  ELSE ExtractConfigs(Tail(plugins), score,
                      AddScore(table, Head(plugins), score))

RECURSIVE AddPopularPlugins(_, _)
AddPopularPlugins(table, pop) ==
  IF pop = <<>> THEN table
  ELSE AddPopularPlugins(AddScore(table, Head(pop).k, Head(pop).v), Tail(pop))

EmptyRecommendations ==
  [zsh_plugins |-> <<>>, aliases |-> <<>>, tools |-> <<>>]

\* _add_known_good_configs
AddKnownGood(rec) ==
  [zsh_plugins |-> AddPopularPlugins(rec.zsh_plugins, popular_plugins),
   aliases |-> DictUpdate(rec.aliases, popular_aliases),
   tools |-> popular_tools]

(* ----------------------------- optimizer ----------------------------- *)

RECURSIVE InsertDesc_Unstable(_, _)
InsertDesc_Unstable(s, e) ==
  IF s = <<>> THEN <<e>>
  ELSE IF Head(s).v > e.v THEN <<Head(s)>> \o InsertDesc_Unstable(Tail(s), e)
  ELSE <<e>> \o s

RECURSIVE InsertDesc(_, _)
\* e goes after every entry whose score is at least its own: entries of
\* equal score stay in the order they had (sorted is stable, also with
\* reverse=True).
InsertDesc(s, e) ==
  IF s = <<>> THEN <<e>>
  ELSE IF Head(s).v >= e.v THEN <<Head(s)>> \o InsertDesc(Tail(s), e)
  ELSE <<e>> \o s

RECURSIVE SortInto(_, _)
SortInto(acc, d) ==
  IF d = <<>> THEN acc ELSE SortInto(InsertDesc(acc, Head(d)), Tail(d))

\* sorted(reddit["zsh_plugins"].items(), key=lambda x: x[1], reverse=True)
SortedByScoreDesc(d) == SortInto(<<>>, d)

\* list(set_of_names): the names in the order the process's hashing gives.
SetToList(S) == SelectSeq(hashOrder, LAMBDA x : x \in S)

OptimizePlugins_FilterFirst(curPlugins, table) ==
  LET current_plugins == Range(curPlugins)
      reddit_plugins == SortedByScoreDesc(table)
      kept == SelectSeq(reddit_plugins,
                LAMBDA e : e.k \notin current_plugins /\ e.v > PluginMinScore)
  IN  SetToList(current_plugins) \o KeyList(Take(kept, TopN))

OptimizePlugins(curPlugins, table) ==
  LET current_plugins == Range(curPlugins)
      reddit_plugins == SortedByScoreDesc(table)
      kept == SelectSeq(Take(reddit_plugins, TopN),
                LAMBDA e : e.k \notin current_plugins /\ e.v > PluginMinScore)
  IN  SetToList(current_plugins) \o KeyList(kept)

MergeAliases_CurrentWins(cur, rec) == DictUpdate(rec, cur)

\* current["zsh"]["aliases"].copy() then .update(reddit["aliases"])
MergeAliases(cur, rec) == DictUpdate(cur, rec)

ToolsToInstall_IgnoreInstalled(installed, tools) ==
  KeyList(SelectSeq(tools, LAMBDA e : e.v > ToolMinScore))

ToolsToInstall(installed, tools) ==
  KeyList(SelectSeq(tools,
            LAMBDA e : e.k \notin Range(installed) /\ e.v > ToolMinScore))

\* _generate_optimized_tmux_config: a fixed table.
OptimizedTmuxConfig ==
  [options |->
     << KV("prefix", "C-a"), KV("base-index", "1"), KV("mouse", "on"),
        KV("history-limit", "50000"),
        KV("default-terminal", "screen-256color"),
        KV("status-position", "bottom"), KV("renumber-windows", "on") >>,
   bindings |->
     << KV("C-a", "send-prefix"),
        KV("|", "split-window -h -c \"#{pane_current_path}\""),
        KV("-", "split-window -v -c \"#{pane_current_path}\""),
        KV("r", "source-file ~/.tmux.conf \\; display-message \"Config reloaded!\""),
        KV("h", "select-pane -L"), KV("j", "select-pane -D"),
        KV("k", "select-pane -U"), KV("l", "select-pane -R"),
        KV("m", "set -g mouse on \\; display \"Mouse: ON\""),
        KV("M", "set -g mouse off \\; display \"Mouse: OFF\"") >>]

EmptyOptimized ==
  [zsh |-> [plugins |-> <<>>, aliases |-> <<>>, functions |-> <<>>,
            exports |-> <<>>, theme |-> "starship"],
   tmux |-> [options |-> <<>>, bindings |-> <<>>],
   tools_to_install |-> <<>>]

optimize_configurations(cur, red) ==
  [zsh |-> [plugins |-> OptimizePlugins(cur.zsh.plugins, red.zsh_plugins),
            aliases |-> MergeAliases(cur.zsh.aliases, red.aliases),
            functions |-> <<>>,
            exports |-> <<>>,
            theme |-> "starship"],
   tmux |-> OptimizedTmuxConfig,
   tools_to_install |-> ToolsToInstall(cur.tools.installed, red.tools)]

(* ----------------------------- analyzer ------------------------------ *)

\* ~/.zshrc as the analyzer's patterns see it: the names inside the first
\* plugins=( ... ) block, and the alias, export and function definitions in
\* document order (a name may be defined more than once).
NoZshrc ==
  [exists |-> FALSE, plugins |-> <<>>, aliases |-> <<>>, exports |-> <<>>,
   functions |-> <<>>]

EmptyConfigs ==
  [zsh |-> [plugins |-> <<>>, aliases |-> <<>>, functions |-> <<>>,
            exports |-> <<>>],
   tmux |-> [bindings |-> <<>>, options |-> <<>>],
   tools |-> [installed |-> <<>>, missing |-> <<>>]]

\* analyze_current_configs: plugins, aliases and functions are extracted
\* (a later definition of a name overwrites the earlier one); the exports
\* pattern is never applied; every essential tool is probed with which.
analyze_current_configs(file, onPath) ==
  [zsh |-> [plugins |-> IF file.exists THEN file.plugins ELSE <<>>,
            aliases |-> IF file.exists THEN DictUpdate(<<>>, file.aliases)
                        ELSE <<>>,
            functions |-> IF file.exists THEN DictUpdate(<<>>, file.functions)
                          ELSE <<>>,
            exports |-> <<>>],
   tmux |-> [bindings |-> <<>>, options |-> <<>>],
   tools |-> [installed |-> SelectSeq(essential_tools,
                                      LAMBDA t : t \in onPath),
              missing |-> SelectSeq(essential_tools,
                                    LAMBDA t : t \notin onPath)]]

(* ------------------------ inputs of the model ------------------------ *)

\* Plugin names a shell configuration holds: one the static table lists and
\* one it does not.
PluginNames == {"git", "myplug"}

AliasTexts ==
  { <<>>,
    << KV("ll", "ls -l"), KV("gs", "git status"), KV("ll", "ls -la") >> }

ZshrcFiles ==
  {NoZshrc} \cup
  { [exists |-> TRUE, plugins |-> p, aliases |-> a,
     exports |-> IF a = <<>> THEN <<>> ELSE << KV("EDITOR", "nvim") >>,
     functions |-> IF a = <<>> THEN <<>> ELSE << KV("mk", "mkdir -p $1") >>]
    : p \in SeqsUpTo(PluginNames, MaxCurPlugins), a \in AliasTexts }

PathChoices == { {}, {"fzf", "jq", "ncdu"} }

\* Well-formed feed items, as [score, plugins]: plugins are the names the
\* patterns of _extract_configs_from_text find in title + " " + selftext.
PostKinds ==
  { [score |-> 600, plugins |-> <<"a1", "a2", "a3">>],
    [score |-> 150, plugins |-> <<"git", "a1", "a1">>],
    [score |-> 1200, plugins |-> <<"myplug">>] }

RECURSIVE ScanPosts(_, _)
\* The loop over a feed's items: an item counts when its score is above 100.
ScanPosts(posts, table) ==
  IF posts = <<>> THEN table
  ELSE ScanPosts(Tail(posts),
         IF Head(posts).score > PostMinScore
         THEN ExtractConfigs(Head(posts).plugins, Head(posts).score, table)
         ELSE table)

ScrapedTables == {ScanPosts(ps, <<>>) : ps \in SeqsUpTo(PostKinds, MaxPosts)}

\* Recommendation sets handed to the optimizer: what the fetch step builds
\* (scraped scores, then the static tables), and sets holding scraped scores
\* with small alias and tool tables around the tool threshold.
RedditInputs ==
  { AddKnownGood([zsh_plugins |-> t, aliases |-> <<>>, tools |-> <<>>])
    : t \in ScrapedTables } \cup
  { [zsh_plugins |-> t,
     aliases |-> << KV("ll", "ls -alF"), KV("la", "ls -A") >>,
     tools |-> tt]
    : t \in ScrapedTables,
      tt \in { << KV("fzf", 2500), KV("yq", 600), KV("glow", 601) >>,
               << KV("ncdu", 600), KV("jq", 1100) >> } }

(* --------------------------- the optimizer --------------------------- *)

StepStarted(s) == s \in Range(steps)

\* Step 4 of run: optimized_configs = self.optimize_configurations(...)
Optimize ==
  /\ pc = "optimize"
  /\ optimized' = optimize_configurations(current, reddit)
  /\ returned' = Append(returned, optimize_configurations(current, reddit))
  /\ steps' = Append(steps, "optimize")
  /\ pc' = "generate"
  /\ UNCHANGED << args, exitStatus, abort, raisedAt, events,
                  hashOrder, zshrc, pathTools, backupDirs, backupFiles,
                  remoteLog, srv, cfg, current, feedLog, reddit, generated,
                  printed >>

\* optimize_configurations called on its own, on every input of the bounded
\* sets above.
InitOpt ==
  /\ pc = "optimize"
  /\ args = [analyze_only |-> FALSE, skip_reddit |-> FALSE]
  /\ exitStatus = -1
  /\ abort = "none"
  /\ raisedAt = "none"
  /\ steps = <<>>
  /\ events = 0
  /\ hashOrder \in SeqPerms(PluginNames)
  /\ zshrc \in ZshrcFiles
  /\ pathTools \in PathChoices
  /\ backupDirs = {}
  /\ backupFiles = {}
  /\ remoteLog = <<>>
  /\ srv = 1
  /\ cfg = 1
  /\ current = analyze_current_configs(zshrc, pathTools)
  /\ feedLog = <<>>
  /\ reddit \in RedditInputs
  /\ optimized = EmptyOptimized
  /\ generated = {}
  /\ printed = <<>>
  /\ returned = <<>>

NextOpt == Optimize

OptSpec == InitOpt /\ [][NextOpt]_vars

\* optimize_configurations is called once more with the arguments of the
\* call before, by this process or by another one (a test run started
\* again), whose string hashing has a seed of its own.
InvokeAgain ==
  /\ pc = "generate"
  /\ Len(returned) < MaxCalls
  /\ hashOrder' \in SeqPerms(PluginNames)
  /\ pc' = "optimize"
  /\ UNCHANGED << args, exitStatus, abort, raisedAt, steps, events, zshrc,
                  pathTools, backupDirs, backupFiles, remoteLog, srv, cfg,
                  current, feedLog, reddit, optimized, generated, printed,
                  returned >>

NextRepeat == Optimize \/ InvokeAgain

RepeatSpec == InitOpt /\ [][NextRepeat]_vars

(* ------------------------ claims: the optimizer ---------------------- *)

IsPrefix(p, s) == Len(p) <= Len(s) /\ SubSeq(s, 1, Len(p)) = p

RECURSIVE Dedup(_)
\* The first occurrence of every entry, in the original order.
Dedup(s) ==
  IF s = <<>> THEN <<>>
  ELSE LET init == Dedup(SubSeq(s, 1, Len(s) - 1))
       IN  IF s[Len(s)] \in Range(init) THEN init
           ELSE Append(init, s[Len(s)])

\* C1: the plugins sequence optimize_configurations returns has no duplicate
\* entries and begins with the input current-plugins sequence in its
\* original order (a name listed twice in the input counted once, where it
\* first occurs).
C1_PluginsPrefixInOrder ==
  StepStarted("optimize") =>
    /\ NoDup(optimized.zsh.plugins)
    /\ IsPrefix(Dedup(current.zsh.plugins), optimized.zsh.plugins)

\* The number of entries strictly ahead of entry i in descending-score order
\* with first-seen order among equal scores.
Rank(table, i) ==
  Cardinality({j \in DOMAIN table :
                 \/ table[j].v > table[i].v
                 \/ table[j].v = table[i].v /\ j < i})

TopKeys(table) == {table[i].k : i \in {j \in DOMAIN table : Rank(table, j) < TopN}}

\* What follows the current plugins in the result.
Appended ==
  SubSeq(optimized.zsh.plugins,
         Cardinality(Range(current.zsh.plugins)) + 1,
         Len(optimized.zsh.plugins))

DescendingFirstSeen(seq, table) ==
  \A i, j \in DOMAIN seq :
    i < j =>
      \/ Get(table, seq[i]) > Get(table, seq[j])
      \/ /\ Get(table, seq[i]) = Get(table, seq[j])
         /\ IndexOf(table, seq[i]) < IndexOf(table, seq[j])

\* C2 as stated: the appended plugins are exactly those among the top 15
\* entries by score whose score is greater than 500, in descending-score
\* order, equal scores in first-seen order.
C2_AppendedAreTopAboveThreshold ==
  StepStarted("optimize") =>
    /\ Range(Appended) =
         {n \in TopKeys(reddit.zsh_plugins) :
            Get(reddit.zsh_plugins, n) > PluginMinScore}
    /\ NoDup(Appended)
    /\ DescendingFirstSeen(Appended, reddit.zsh_plugins)

\* C2 amended: the appended plugins are exactly those among the top 15
\* entries by score whose score is greater than 500 and that are not
\* current plugins, in descending-score order, equal scores in first-seen
\* order.
C2_AppendedAreTopAboveThresholdNotCurrent ==
  StepStarted("optimize") =>
    /\ Range(Appended) =
         {n \in TopKeys(reddit.zsh_plugins) :
            /\ Get(reddit.zsh_plugins, n) > PluginMinScore
            /\ n \notin Range(current.zsh.plugins)}
    /\ NoDup(Appended)
    /\ DescendingFirstSeen(Appended, reddit.zsh_plugins)

\* A result where the cut, the threshold, the exclusion of current plugins
\* and a tie all matter: more than 15 scored names, one above 500 outside
\* the top 15, one at or below 500, a current plugin among the top 15 above
\* 500, and two appended plugins of equal score.
C2_Witness ==
  /\ StepStarted("optimize")
  /\ Len(reddit.zsh_plugins) > TopN
  /\ \E n \in Keys(reddit.zsh_plugins) \ TopKeys(reddit.zsh_plugins) :
       Get(reddit.zsh_plugins, n) > PluginMinScore
  /\ \E n \in Range(current.zsh.plugins) \cap TopKeys(reddit.zsh_plugins) :
       Get(reddit.zsh_plugins, n) > PluginMinScore
  /\ \E i, j \in DOMAIN Appended :
       /\ i < j
       /\ Get(reddit.zsh_plugins, Appended[i]) =
            Get(reddit.zsh_plugins, Appended[j])

\* C13: optimize_configurations is deterministic: any two calls with the
\* same current configuration, tool availability and recommendation set
\* return the same value, the order of the plugins sequence included.
C13_SameInputSameResult ==
  \A i, j \in DOMAIN returned : returned[i] = returned[j]

C4_ToolsToInstall ==
  StepStarted("optimize") =>
    /\ Range(optimized.tools_to_install) =
         {t \in Keys(reddit.tools) :
            /\ Get(reddit.tools, t) > ToolMinScore
            /\ t \notin Range(current.tools.installed)}
    /\ Range(optimized.tools_to_install) \cap Range(current.tools.installed)
         = {}

\* An installed tool scored above 600, a missing tool scored exactly 600 and
\* a missing tool scored above 600, in one call.
C4_Witness ==
  /\ StepStarted("optimize")
  /\ \E t \in Keys(reddit.tools) \cap Range(current.tools.installed) :
       Get(reddit.tools, t) > ToolMinScore
  /\ \E t \in Keys(reddit.tools) \ Range(current.tools.installed) :
       Get(reddit.tools, t) = ToolMinScore
  /\ optimized.tools_to_install # <<>>

\* C16: the cut to the 15 highest-scored entries is made on the whole score
\* table, before the entries that are current plugins or not above 500 are
\* dropped: a plugin ranked below the 15 highest-scored entries is never
\* appended, not even when some of those 15 are current plugins and fewer
\* than 15 plugins are appended.
C16_CutBeforeFilter ==
  StepStarted("optimize") =>
    \A n \in Keys(reddit.zsh_plugins) \ TopKeys(reddit.zsh_plugins) :
      n \in Range(optimized.zsh.plugins) => n \in Range(current.zsh.plugins)

\* A call where the order of cut and filter shows: a plugin below the top 15
\* that is above 500 and not a current plugin, a current plugin among the
\* top 15, and fewer than 15 plugins appended.
C16_Witness ==
  /\ StepStarted("optimize")
  /\ \E n \in Keys(reddit.zsh_plugins) \ TopKeys(reddit.zsh_plugins) :
       /\ Get(reddit.zsh_plugins, n) > PluginMinScore
       /\ n \notin Range(current.zsh.plugins)
       /\ n \notin Range(optimized.zsh.plugins)
  /\ Range(current.zsh.plugins) \cap TopKeys(reddit.zsh_plugins) # {}
  /\ Len(Appended) < TopN
  /\ Len(Appended) > 0

(* ---------------------------- the pipeline --------------------------- *)

ArgChoices == [analyze_only : BOOLEAN, skip_reddit : BOOLEAN]

\* Shell configurations the pipeline is run on: none, and one that lists two
\* plugins and defines aliases, exports and a function.
PipelineZshrcs ==
  { NoZshrc,
    [exists |-> TRUE,
     plugins |-> <<"git", "myplug">>,
     aliases |-> << KV("ll", "ls -l"), KV("gs", "git status"),
                    KV("ll", "ls -la") >>,
     exports |-> << KV("EDITOR", "nvim") >>,
     functions |-> << KV("mk", "mkdir -p $1") >>] }

PipelinePath == {"fzf", "jq", "ncdu"}

\* The hash seed the full pipeline is run under: the one of PYTHONHASHSEED=0,
\* where a set of the two plugin names iterates in the reverse of the listed
\* order. The other orders are explored where the optimizer and steps 2 to 5
\* run on their own.
PipelineHashOrders == {<<"myplug", "git">>}

\* A well-formed item the scan skips (score not above 100).
LowPost == [score |-> 50, plugins |-> <<"a1">>]

\* Well-formed items a feed returns in a run of the pipeline: one that names
\* a plugin of the static table and, twice, a new one, and one the scan
\* skips.
FeedItems == {[score |-> 150, plugins |-> <<"git", "a1", "a1">>], LowPost}

\* What requests.get and response.json() give for one feed. kind is
\* "transport" (requests.get raises), "non200", "badjson" (response.json()
\* raises) or "json"; items are the well-formed items at the head of the
\* list; broken says that an item the loop cannot process (not an object, a
\* score that is no number, a null selftext) follows them.
FeedResponses ==
  { [kind |-> kd, items |-> <<>>, broken |-> FALSE]
    : kd \in {"transport", "non200", "badjson"} } \cup
  { [kind |-> "json", items |-> it, broken |-> b]
    : it \in SeqsUpTo(FeedItems, MaxEvents), b \in BOOLEAN }

FeedFailed(resp) == resp.kind # "json" \/ resp.broken

\* The events of one response: its well-formed items, and its failure.
FeedEvents(resp) == Len(resp.items) + (IF FeedFailed(resp) THEN 1 ELSE 0)

FeedOutcome(resp) ==
  IF resp.kind # "json" THEN resp.kind
  ELSE IF resp.broken THEN "malformed" ELSE "ok"

\* The body of the try block for one feed: nothing is scanned unless the
\* status is 200 and the body parses; the items are scanned in order, and an
\* exception raised by an item ends the loop with the scores added so far
\* left in the table.
ScanFeed(resp, table) ==
  IF resp.kind = "json" THEN ScanPosts(resp.items, table) ELSE table

\* The items of a response that reach _extract_configs_from_text: those of
\* a parsed body, ahead of any item that breaks the loop, whose score is
\* above 100.
ScannedItems(resp) ==
  IF resp.kind = "json"
  THEN SelectSeq(resp.items, LAMBDA it : it.score > PostMinScore)
  ELSE <<>>

RemoteOutcomes == {"ok", "nonzero", "exception"}

Call(step, target, config, outcome) ==
  [step |-> step, target |-> target, config |-> config, outcome |-> outcome]

Init ==
  /\ pc = "main"
  /\ args \in ArgChoices
  /\ exitStatus = -1
  /\ abort = "none"
  /\ raisedAt = "none"
  /\ steps = <<>>
  /\ events = 0
  /\ hashOrder \in PipelineHashOrders
  /\ zshrc \in PipelineZshrcs
  /\ pathTools = PipelinePath
  /\ backupDirs = {}
  /\ backupFiles = {}
  /\ remoteLog = <<>>
  /\ srv = 1
  /\ cfg = 1
  /\ current = EmptyConfigs
  /\ feedLog = <<>>
  /\ reddit = EmptyRecommendations
  /\ optimized = EmptyOptimized
  /\ generated = {}
  /\ printed = <<>>
  /\ returned = <<>>

Main_AlwaysRun ==
  /\ pc = "main"
  /\ pc' = "backup_local"
  /\ UNCHANGED << args, exitStatus, abort, raisedAt, steps, events,
                  hashOrder, zshrc, pathTools, backupDirs, backupFiles,
                  remoteLog, srv, cfg, current, feedLog, reddit, optimized,
                  generated, printed, returned >>

\* main: if args.analyze_only: ... else: ultra.run(). args.skip_reddit is
\* read nowhere.
Main ==
  /\ pc = "main"
  /\ pc' = IF args.analyze_only THEN "analyze_only" ELSE "backup_local"
  /\ UNCHANGED << args, exitStatus, abort, raisedAt, steps, events,
                  hashOrder, zshrc, pathTools, backupDirs, backupFiles,
                  remoteLog, srv, cfg, current, feedLog, reddit, optimized,
                  generated, printed, returned >>

\* main, analyze-only branch: configs = ultra.analyze_current_configs()
AnalyzeOnly ==
  /\ pc = "analyze_only"
  /\ current' = analyze_current_configs(zshrc, pathTools)
  /\ steps' = Append(steps, "analyze")
  /\ pc' = "print"
  /\ UNCHANGED << args, exitStatus, abort, raisedAt, events,
                  hashOrder, zshrc, pathTools, backupDirs, backupFiles,
                  remoteLog, srv, cfg, feedLog, reddit, optimized, generated,
                  printed, returned >>

\* main, analyze-only branch: print(json.dumps(configs, indent=2)), after
\* which main returns and the process exits with status 0.
PrintAnalysis ==
  /\ pc = "print"
  /\ printed' = <<current>>
  /\ exitStatus' = 0
  /\ pc' = "exited"
  /\ UNCHANGED << args, abort, raisedAt, steps, events, hashOrder,
                  zshrc, pathTools, backupDirs, backupFiles, remoteLog, srv,
                  cfg, current, feedLog, reddit, optimized, generated,
                  returned >>

\* backup_configurations, local part: every listed local file that exists is
\* copied into backup_dir (of the four listed files the model follows
\* ~/.zshrc).
BackupLocal ==
  /\ pc = "backup_local"
  /\ steps' = Append(steps, "backup")
  /\ backupFiles' =
       backupFiles \cup (IF zshrc.exists THEN {<<"local", ".zshrc">>} ELSE {})
  /\ srv' = 1
  /\ cfg' = 1
  /\ pc' = "backup_remote"
  /\ UNCHANGED << args, exitStatus, abort, raisedAt, events,
                  hashOrder, zshrc, pathTools, backupDirs, remoteLog, current,
                  feedLog, reddit, optimized, generated, printed, returned >>

WriteRemoteBackup_NoCheck(files, target, config, outcome) ==
  IF outcome # "exception" THEN files \cup {<<target, config>>} ELSE files

\* if result.returncode == 0: write result.stdout to
\* <backup_dir>/<server>/<basename>. A raised exception is caught and
\* reported; a non-zero status is passed over in silence.
WriteRemoteBackup(files, target, config, outcome) ==
  IF outcome = "ok" THEN files \cup {<<target, config>>} ELSE files

\* backup_configurations, one ssh read of one file of one server. The
\* server's directory is made (os.makedirs, exist_ok) before its first read.
BackupRemoteRead ==
  /\ pc = "backup_remote"
  /\ \E outcome \in RemoteOutcomes :
       /\ outcome # "ok" => events < MaxEvents
       /\ events' = IF outcome = "ok" THEN events ELSE events + 1
       /\ backupDirs' = backupDirs \cup {servers[srv]}
       /\ backupFiles' =
            WriteRemoteBackup(backupFiles, servers[srv], RemoteConfigs[cfg],
                              outcome)
       /\ remoteLog' =
            Append(remoteLog,
                   Call("backup", servers[srv], RemoteConfigs[cfg], outcome))
  /\ IF cfg < Len(RemoteConfigs)
     THEN /\ cfg' = cfg + 1
          /\ UNCHANGED << srv, pc >>
     ELSE /\ cfg' = 1
          /\ IF srv < Len(servers)
             THEN srv' = srv + 1 /\ UNCHANGED pc
             ELSE srv' = 1 /\ pc' = "analyze"
  /\ UNCHANGED << args, exitStatus, abort, raisedAt, steps,
                  hashOrder, zshrc, pathTools, current, feedLog, reddit,
                  optimized, generated, printed, returned >>

\* Step 2 of run.
Analyze ==
  /\ pc = "analyze"
  /\ current' = analyze_current_configs(zshrc, pathTools)
  /\ steps' = Append(steps, "analyze")
  /\ pc' = "fetch"
  /\ UNCHANGED << args, exitStatus, abort, raisedAt, events,
                  hashOrder, zshrc, pathTools, backupDirs, backupFiles,
                  remoteLog, srv, cfg, feedLog, reddit, optimized, generated,
                  printed, returned >>

\* fetch_reddit_recommendations, one iteration of the loop over
\* reddit_endpoints: the request, and the scan of what it returns.
FetchFeed ==
  /\ pc = "fetch"
  /\ Len(feedLog) < Len(reddit_endpoints)
  /\ \E resp \in FeedResponses :
       /\ events + FeedEvents(resp) <= MaxEvents
       /\ events' = events + FeedEvents(resp)
       /\ reddit' =
            [reddit EXCEPT !.zsh_plugins = ScanFeed(resp, reddit.zsh_plugins)]
       /\ feedLog' =
            Append(feedLog,
                   [feed |-> reddit_endpoints[Len(feedLog) + 1],
                    outcome |-> FeedOutcome(resp),
                    scanned |-> ScannedItems(resp),
                    contributed |->
                      ScanFeed(resp, reddit.zsh_plugins) # reddit.zsh_plugins])
  /\ steps' = IF feedLog = <<>> THEN Append(steps, "fetch") ELSE steps
  /\ UNCHANGED << pc, args, exitStatus, abort, raisedAt, hashOrder, zshrc,
                  pathTools, backupDirs, backupFiles, remoteLog, srv, cfg,
                  current, optimized, generated, printed, returned >>

\* fetch_reddit_recommendations, after the loop:
\* self._add_known_good_configs(recommendations); return recommendations
AddKnownGoodConfigs ==
  /\ pc = "fetch"
  /\ Len(feedLog) = Len(reddit_endpoints)
  /\ reddit' = AddKnownGood(reddit)
  /\ pc' = "optimize"
  /\ UNCHANGED << args, exitStatus, abort, raisedAt, steps, events,
                  hashOrder, zshrc, pathTools, backupDirs, backupFiles,
                  remoteLog, srv, cfg, current, feedLog, optimized, generated,
                  printed, returned >>

\* The alias names of the model (those of the static table, and gs of the
\* shell configurations above) in the ascending order Python gives strings,
\* code point by code point.
AliasNamesAscending ==
  << "..", "...", "cat", "d", "dc", "find", "g", "gc", "gcb", "gco", "gd",
     "gl", "gp", "grep", "gs", "gst", "k", "l", "la", "ll", "ls", "top",
     "vim" >>

\* sorted(d.items()): the keys of a dict are distinct, so the items come out
\* in ascending order of key.
SortedItems(d) ==
  LET names == SelectSeq(AliasNamesAscending, LAMBDA n : n \in Keys(d))
  IN  [i \in DOMAIN names |-> KV(names[i], Get(d, names[i]))]

\* The alias lines of the fixed text that follows the generated alias block,
\* headed "# Advanced aliases".
AdvancedAliases ==
  <<"zshrc", "tmuxrc", "gitroot", "weather", "cheat", "myip", "ports">>

generate_zshrc_Unsorted(zsh) ==
  [plugins |-> zsh.plugins, aliases |-> zsh.aliases,
   advanced |-> AdvancedAliases]

\* _generate_zshrc: between fixed texts, the plugin block with one line per
\* plugin in the order of the list, and the alias block with one line
\* alias NAME="COMMAND" per item of the alias table, sorted.
generate_zshrc(zsh) ==
  [plugins |-> zsh.plugins, aliases |-> SortedItems(zsh.aliases),
   advanced |-> AdvancedAliases]

\* _generate_tmux_conf: one line per option, one per binding.
generate_tmux_conf(tmux) == [options |-> tmux.options, bindings |-> tmux.bindings]

\* generate_configurations: the three files are written under dotfiles_dir.
Generate ==
  /\ pc = "generate"
  /\ generated' =
       { [path |-> "zsh/zshrc", content |-> generate_zshrc(optimized.zsh)],
         [path |-> "tmux/tmux.conf",
          content |-> generate_tmux_conf(optimized.tmux)],
         [path |-> "config/starship.toml", content |-> "starship"] }
  /\ steps' = Append(steps, "generate")
  /\ pc' = "install_local"
  /\ UNCHANGED << args, exitStatus, abort, raisedAt, events,
                  hashOrder, zshrc, pathTools, backupDirs, backupFiles,
                  remoteLog, srv, cfg, current, feedLog, reddit, optimized,
                  returned >>
  /\ UNCHANGED printed

\* install_missing_tools, local part: brew on macOS, nothing elsewhere.
InstallLocal ==
  /\ pc = "install_local"
  /\ steps' = Append(steps, "install")
  /\ srv' = 1
  /\ pc' = "install_remote"
  /\ UNCHANGED << args, exitStatus, abort, raisedAt, events,
                  hashOrder, zshrc, pathTools, backupDirs, backupFiles,
                  remoteLog, cfg, current, feedLog, reddit, optimized,
                  generated, printed, returned >>

HandleException_Swallow(at) ==
  /\ abort' = "error"
  /\ raisedAt' = at
  /\ exitStatus' = 0
  /\ pc' = "exited"

\* main: except Exception as e: print(...); sys.exit(1)
HandleException(at) ==
  /\ abort' = "error"
  /\ raisedAt' = at
  /\ exitStatus' = 1
  /\ pc' = "exited"

RemoteCall_LeaveEarly(step, next) ==
  /\ pc = step
  /\ \E outcome \in RemoteOutcomes :
       /\ outcome # "ok" => events < MaxEvents
       /\ events' = IF outcome = "ok" THEN events ELSE events + 1
       /\ remoteLog' =
            Append(remoteLog, Call(step, servers[srv], "", outcome))
       /\ IF outcome = "exception"
          THEN HandleException(step) /\ UNCHANGED srv
          ELSE /\ UNCHANGED << abort, raisedAt, exitStatus >>
               /\ srv' = 1
               /\ pc' = next
  /\ UNCHANGED << args, steps, hashOrder, zshrc, pathTools,
                  backupDirs, backupFiles, cfg, current, feedLog, reddit,
                  optimized, generated, printed, returned >>

\* One subprocess.run(["ssh", host, ...]) of a per-server loop that has no
\* try around it: a raised exception leaves the loop, the step and run; any
\* exit status is reported and the loop goes on. subprocess.run is given no
\* timeout, so a connection that times out shows as ssh's non-zero status.
RemoteCall(step, next) ==
  /\ pc = step
  /\ \E outcome \in RemoteOutcomes :
       /\ outcome # "ok" => events < MaxEvents
       /\ events' = IF outcome = "ok" THEN events ELSE events + 1
       /\ remoteLog' =
            Append(remoteLog, Call(step, servers[srv], "", outcome))
       /\ IF outcome = "exception"
          THEN HandleException(step) /\ UNCHANGED srv
          ELSE /\ UNCHANGED << abort, raisedAt, exitStatus >>
               /\ IF srv < Len(servers)
                  THEN srv' = srv + 1 /\ UNCHANGED pc
                  ELSE srv' = 1 /\ pc' = next
  /\ UNCHANGED << args, steps, hashOrder, zshrc, pathTools,
                  backupDirs, backupFiles, cfg, current, feedLog, reddit,
                  optimized, generated, printed, returned >>

\* install_missing_tools, one iteration of the loop over the servers:
\* self._install_tools_remote(server_info["host"])
InstallRemote == RemoteCall("install_remote", "sync_git")

\* synchronize_all, local part: chdir to dotfiles_dir, git add, commit and
\* push with check=False.
SyncGit ==
  /\ pc = "sync_git"
  /\ steps' = Append(steps, "sync")
  /\ srv' = 1
  /\ pc' = "sync_remote"
  /\ UNCHANGED << args, exitStatus, abort, raisedAt, events,
                  hashOrder, zshrc, pathTools, backupDirs, backupFiles,
                  remoteLog, cfg, current, feedLog, reddit, optimized,
                  generated, printed, returned >>

\* synchronize_all, one iteration of the loop over the servers.
SyncRemote == RemoteCall("sync_remote", "complete")

\* run: the closing prints; run and main return, the process exits with 0.
RunComplete ==
  /\ pc = "complete"
  /\ exitStatus' = 0
  /\ pc' = "exited"
  /\ UNCHANGED << args, abort, raisedAt, steps, events, hashOrder,
                  zshrc, pathTools, backupDirs, backupFiles, remoteLog, srv,
                  cfg, current, feedLog, reddit, optimized, generated,
                  printed, returned >>

\* main: except KeyboardInterrupt: print(...); sys.exit(1). The user may
\* interrupt at any point of the flow.
KeyboardInterrupt ==
  /\ pc # "exited"
  /\ events < MaxEvents
  /\ events' = events + 1
  /\ abort' = "interrupt"
  /\ exitStatus' = 1
  /\ pc' = "exited"
  /\ UNCHANGED << args, raisedAt, steps, hashOrder, zshrc,
                  pathTools, backupDirs, backupFiles, remoteLog, srv, cfg,
                  current, feedLog, reddit, optimized, generated, printed,
                  returned >>

\* The operations of the flow that touch the file system or start a local
\* program outside any try of their own: os.makedirs and shutil.copy2 in the
\* backup, the read of ~/.zshrc and the which probes in the analyzer, the
\* writes of the generator, brew in the local install, os.chdir and git in
\* the synchronizer.
RaisingPcs ==
  {"backup_local", "analyze", "analyze_only", "generate", "install_local",
   "sync_git"}

\* One of them raises: the exception reaches main's handler.
UncaughtError ==
  /\ pc \in RaisingPcs
  /\ events < MaxEvents
  /\ events' = events + 1
  /\ HandleException(pc)
  /\ UNCHANGED << args, steps, hashOrder, zshrc, pathTools,
                  backupDirs, backupFiles, remoteLog, srv, cfg, current,
                  feedLog, reddit, optimized, generated, printed, returned >>

Next ==
  \/ Main
  \/ AnalyzeOnly
  \/ PrintAnalysis
  \/ BackupLocal
  \/ BackupRemoteRead
  \/ Analyze
  \/ FetchFeed
  \/ AddKnownGoodConfigs
  \/ Optimize
  \/ Generate
  \/ InstallLocal
  \/ InstallRemote
  \/ SyncGit
  \/ SyncRemote
  \/ RunComplete
  \/ KeyboardInterrupt
  \/ UncaughtError

Spec == Init /\ [][Next]_vars

\* Steps 2 to 5 of run on their own: the analysis, the fetch, the merge and
\* the generation. The backup before them and the install and the
\* synchronization after them write nothing these four steps read.
InitData ==
  /\ pc = "analyze"
  /\ args = [analyze_only |-> FALSE, skip_reddit |-> FALSE]
  /\ exitStatus = -1
  /\ abort = "none"
  /\ raisedAt = "none"
  /\ steps = <<"backup">>
  /\ events = 0
  /\ hashOrder \in SeqPerms(PluginNames)
  /\ zshrc \in PipelineZshrcs
  /\ pathTools \in PathChoices
  /\ backupDirs = {}
  /\ backupFiles = {}
  /\ remoteLog = <<>>
  /\ srv = 1
  /\ cfg = 1
  /\ current = EmptyConfigs
  /\ feedLog = <<>>
  /\ reddit = EmptyRecommendations
  /\ optimized = EmptyOptimized
  /\ generated = {}
  /\ printed = <<>>
  /\ returned = <<>>

NextData ==
  \/ Analyze
  \/ FetchFeed
  \/ AddKnownGoodConfigs
  \/ Optimize
  \/ Generate

DataSpec == InitData /\ [][NextData]_vars

(* ------------------------ claims: the pipeline ----------------------- *)

AllSteps ==
  <<"backup", "analyze", "fetch", "optimize", "generate", "install", "sync">>

Calls(step, target) ==
  {i \in DOMAIN remoteLog :
     remoteLog[i].step = step /\ remoteLog[i].target = target}

\* C5: started with --skip-reddit, the run issues no request to any feed,
\* and the recommendation set the optimizer uses is the static table alone.
C5_SkipRedditIssuesNoRequest ==
  args.skip_reddit =>
    /\ feedLog = <<>>
    /\ StepStarted("optimize") => reddit = AddKnownGood(EmptyRecommendations)

\* C6: started with --analyze-only, only the analyzer runs and its result is
\* printed; no backup, fetch, optimize, generate, install or synchronize
\* step is ever executed.
C6_AnalyzeOnlyRunsAnalyzerOnly ==
  args.analyze_only =>
    /\ Range(steps) \subseteq {"analyze"}
    /\ backupDirs = {}
    /\ backupFiles = {}
    /\ remoteLog = <<>>
    /\ feedLog = <<>>
    /\ reddit = EmptyRecommendations
    /\ optimized = EmptyOptimized
    /\ generated = {}
    /\ printed # <<>> => StepStarted("analyze")
    /\ exitStatus = 0 =>
         printed = <<analyze_current_configs(zshrc, pathTools)>>

\* An analyze-only run of a machine that has a shell configuration, ended
\* normally with the analysis printed.
C6_Witness ==
  /\ args.analyze_only
  /\ zshrc.exists
  /\ exitStatus = 0
  /\ printed # <<>>
  /\ printed[1].zsh.plugins # <<>>

BackupReadsDone(t) ==
  \A c \in Range(RemoteConfigs) :
    \E i \in Calls("backup", t) : remoteLog[i].config = c

\* Every read of the target returned a non-zero status.
BackupFailedFor(t) ==
  /\ BackupReadsDone(t)
  /\ \A i \in Calls("backup", t) : remoteLog[i].outcome = "nonzero"

BackupSucceededFor(t) ==
  /\ BackupReadsDone(t)
  /\ \A i \in Calls("backup", t) : remoteLog[i].outcome = "ok"

\* The failed reads abort nothing: the backup step has gone on to the next
\* step, and a run that no interruption and no raised exception ends exits
\* with status 0 after all seven steps.
BackupFailureAbortsNothing ==
  /\ pc # "backup_remote"
  /\ raisedAt # "backup_remote"
  /\ abort = "none" => exitStatus \in {-1, 0}
  /\ exitStatus = 0 => steps = AllSteps

\* C7 as stated: when the remote reads of one target return a non-zero
\* status while another target's reads succeed, the run continues to
\* completion with exit status 0, the backup directory contains the
\* successful target's files, and it contains no entry for the failed
\* target.
C7_NoEntryForFailedTarget ==
  \A tf, ts \in Range(servers) :
    BackupFailedFor(tf) /\ BackupSucceededFor(ts) =>
      /\ BackupFailureAbortsNothing
      /\ \A c \in Range(RemoteConfigs) : <<ts, c>> \in backupFiles
      /\ tf \notin backupDirs
      /\ \A c \in Range(RemoteConfigs) : <<tf, c>> \notin backupFiles

\* C7 amended: ... the backup directory contains the successful target's
\* files, and for the failed target it contains the target's directory,
\* made before the reads, with no file in it.
C7_EmptyDirectoryForFailedTarget ==
  \A tf, ts \in Range(servers) :
    BackupFailedFor(tf) /\ BackupSucceededFor(ts) =>
      /\ BackupFailureAbortsNothing
      /\ \A c \in Range(RemoteConfigs) : <<ts, c>> \in backupFiles
      /\ ts \in backupDirs
      /\ tf \in backupDirs
      /\ \A c \in Range(RemoteConfigs) : <<tf, c>> \notin backupFiles

\* A run that ended with status 0 after one target's reads failed and the
\* other's succeeded.
C7_Witness ==
  /\ \E tf, ts \in Range(servers) :
       BackupFailedFor(tf) /\ BackupSucceededFor(ts)
  /\ pc = "exited"
  /\ exitStatus = 0

RemoteFailureIn(step) ==
  \E i \in DOMAIN remoteLog :
    remoteLog[i].step = step /\ remoteLog[i].outcome # "ok"

\* C8: in the install and synchronize steps a failed remote operation for
\* one target (non-zero status, timeout, or an exception raised by the
\* remote-shell call) never keeps the operation from being attempted on the
\* remaining targets, never stops the later steps, and never changes the
\* exit status from 0. Stated of the runs that no user interruption and no
\* local error ends: such a run, once it has exited, has exit status 0 and
\* has called every server in both steps.
C8_RemoteFailureStopsNothing ==
  ( /\ RemoteFailureIn("install_remote") \/ RemoteFailureIn("sync_remote")
    /\ pc = "exited"
    /\ abort # "interrupt"
    /\ raisedAt \notin RaisingPcs )
  => /\ exitStatus = 0
     /\ \A t \in Range(servers) :
          /\ Calls("install_remote", t) # {}
          /\ Calls("sync_remote", t) # {}

\* C9: a feed whose request ends in a non-200 status, a transport error or a
\* malformed payload contributes nothing to the plugin score table; every
\* remaining feed is still requested, the static table is still merged, and
\* the run is not aborted.
C9_FailedFeedContributesNothing ==
  /\ \A i \in DOMAIN feedLog :
       feedLog[i].outcome # "ok" => ~feedLog[i].contributed
  /\ raisedAt # "fetch"
  /\ StepStarted("optimize") =>
       /\ [i \in DOMAIN feedLog |-> feedLog[i].feed] = reddit_endpoints
       /\ \A i \in DOMAIN popular_plugins :
            /\ popular_plugins[i].k \in Keys(reddit.zsh_plugins)
            /\ Get(reddit.zsh_plugins, popular_plugins[i].k)
                 >= popular_plugins[i].v

\* C12: the analyzer extracts the export table too: for every
\* export NAME="VALUE" occurrence in the shell configuration, the exports
\* mapping of the analysis maps NAME to VALUE, the last occurrence of a NAME
\* winning.
C12_ExportsExtracted ==
  StepStarted("analyze") /\ zshrc.exists =>
    /\ Keys(current.zsh.exports) = Keys(zshrc.exports)
    /\ \A i \in DOMAIN zshrc.exports :
         (\A j \in DOMAIN zshrc.exports :
            zshrc.exports[j].k = zshrc.exports[i].k => j <= i)
         => Get(current.zsh.exports, zshrc.exports[i].k) = zshrc.exports[i].v

\* The fetch step has returned its recommendations.
FetchReturned == pc = "optimize" \/ StepStarted("optimize")

RECURSIVE SumSeq(_)
SumSeq(s) == IF s = <<>> THEN 0 ELSE Head(s) + SumSeq(Tail(s))

Occurrences(s, x) == Cardinality({i \in DOMAIN s : s[i] = x})

\* What one feed's scanned items add up to for a name: the item's score for
\* every time the patterns extract the name from the item.
FeedContribution(entry, n) ==
  SumSeq([i \in DOMAIN entry.scanned |->
            entry.scanned[i].score * Occurrences(entry.scanned[i].plugins, n)])

StaticContribution(n) ==
  IF n \in Keys(popular_plugins) THEN Get(popular_plugins, n) ELSE 0

ContributedNames ==
  Keys(popular_plugins) \cup
  UNION {UNION {Range(feedLog[i].scanned[j].plugins)
                : j \in DOMAIN feedLog[i].scanned}
         : i \in DOMAIN feedLog}

\* C11: after the fetch step the plugin score table has an entry for exactly
\* the names some source contributed, and the score of each is the sum of
\* what every source contributed for it: the score of each scanned feed item
\* above 100, once for every time the item names it, plus the static table's
\* score if it lists the name. Nothing is overwritten or replaced by a
\* maximum.
C11_ScoresAreSummed ==
  FetchReturned =>
    /\ Keys(reddit.zsh_plugins) = ContributedNames
    /\ NoDup(KeyList(reddit.zsh_plugins))
    /\ \A n \in ContributedNames :
         Get(reddit.zsh_plugins, n) =
           SumSeq([i \in DOMAIN feedLog |-> FeedContribution(feedLog[i], n)])
             + StaticContribution(n)

\* A name scored by items of two different feeds and by the static table,
\* and a name scored by feed items alone.
C11_Witness ==
  /\ FetchReturned
  /\ \E n \in Keys(popular_plugins) :
       Cardinality({i \in DOMAIN feedLog :
                      FeedContribution(feedLog[i], n) > 0}) >= 2
  /\ \E n \in ContributedNames \ Keys(popular_plugins) :
       Get(reddit.zsh_plugins, n) > 0

Pos(s, x) == CHOOSE i \in DOMAIN s : s[i] = x

RemoteSteps == <<"backup", "install_remote", "sync_remote">>

\* Where a remote call stands in the program order of a full run: its step,
\* then its server, then (in the backup) its file.
CallOrder(c) ==
  << Pos(RemoteSteps, c.step), Pos(servers, c.target),
     IF c.config \in Range(RemoteConfigs) THEN Pos(RemoteConfigs, c.config)
     ELSE 0 >>

LexLess(a, b) ==
  \/ a[1] < b[1]
  \/ a[1] = b[1] /\ a[2] < b[2]
  \/ a[1] = b[1] /\ a[2] = b[2] /\ a[3] < b[3]

\* Every remote call of the step has returned or raised.
RemoteCallsDone(step) ==
  \A t \in Range(servers) :
    IF step = "backup" THEN BackupReadsDone(t) ELSE Calls(step, t) # {}

\* C14: in a full run the seven steps start in the order backup, analyze,
\* fetch, optimize, generate, install, synchronize, each at most once and
\* each only after the previous one has finished (all remote reads of the
\* backup made before the analysis starts, all five feeds requested in
\* their order before the optimizer starts, every server's install call
\* made before the synchronization starts, every server's sync call made
\* before the run completes); the remote calls are made one after another,
\* in the order of the steps, within a step in the order of the servers,
\* and none is made twice.
C14_StepsStrictlyInSequence ==
  ~args.analyze_only =>
    /\ IsPrefix(steps, AllSteps)
    /\ StepStarted("analyze") => RemoteCallsDone("backup")
    /\ IsPrefix([i \in DOMAIN feedLog |-> feedLog[i].feed], reddit_endpoints)
    /\ feedLog # <<>> => StepStarted("fetch")
    /\ StepStarted("optimize") => Len(feedLog) = Len(reddit_endpoints)
    /\ generated # {} => StepStarted("optimize")
    /\ StepStarted("install") => generated # {}
    /\ StepStarted("sync") => RemoteCallsDone("install_remote")
    /\ exitStatus = 0 => steps = AllSteps /\ RemoteCallsDone("sync_remote")
    /\ \A i \in DOMAIN remoteLog :
         /\ remoteLog[i].step = "backup" => StepStarted("backup")
         /\ remoteLog[i].step = "install_remote" => StepStarted("install")
         /\ remoteLog[i].step = "sync_remote" => StepStarted("sync")
         /\ i > 1 =>
              LexLess(CallOrder(remoteLog[i - 1]), CallOrder(remoteLog[i]))

\* A full run that has completed all seven steps and made every remote call,
\* one of them failed.
C14_Witness ==
  /\ ~args.analyze_only
  /\ exitStatus = 0
  /\ steps = AllSteps
  /\ Len(remoteLog) =
       Len(servers) * Len(RemoteConfigs) + Len(servers) + Len(servers)
  /\ RemoteFailureIn("install_remote")

\* The generated shell rc.
GeneratedZshrc ==
  (CHOOSE f \in generated : f.path = "zsh/zshrc").content

\* No plugin and no alias in the current shell configuration, and no feed
\* gave an item that was scanned.
StaticTableOnly ==
  /\ current.zsh.plugins = <<>>
  /\ current.zsh.aliases = <<>>
  /\ \A i \in DOMAIN feedLog : feedLog[i].scanned = <<>>

\* C15: end to end, with an empty current shell configuration and every
\* feed yielding no data, the plugin block of the generated shell rc lists
\* exactly the plugin names of the static table with score above 500, each
\* once, and its alias block has exactly one line per alias of the static
\* alias table, carrying the table's command, the lines in ascending order
\* of alias name.
C15_StaticTableOnlyOutput ==
  generated # {} /\ StaticTableOnly =>
    /\ Range(GeneratedZshrc.plugins) =
         {popular_plugins[i].k : i \in
            {j \in DOMAIN popular_plugins :
               popular_plugins[j].v > PluginMinScore}}
    /\ NoDup(GeneratedZshrc.plugins)
    /\ Range(GeneratedZshrc.aliases) = Range(popular_aliases)
    /\ Len(GeneratedZshrc.aliases) = Len(popular_aliases)
    /\ \A i, j \in DOMAIN GeneratedZshrc.aliases :
         i < j => Pos(AliasNamesAscending, GeneratedZshrc.aliases[i].k)
                    < Pos(AliasNamesAscending, GeneratedZshrc.aliases[j].k)

\* A run on a machine without shell configuration in which all five feeds
\* were requested, two of them failed and none gave a scanned item, and the
\* files were generated.
C15_Witness ==
  /\ generated # {}
  /\ StaticTableOnly
  /\ ~zshrc.exists
  /\ Len(feedLog) = Len(reddit_endpoints)
  /\ Cardinality({i \in DOMAIN feedLog : feedLog[i].outcome # "ok"}) >= 2
  /\ GeneratedZshrc.aliases # <<>>

\* The flow main selected has run to its end.
FlowCompleted ==
  IF args.analyze_only
  THEN steps = <<"analyze">> /\ printed # <<>>
  ELSE /\ steps = AllSteps
       /\ Len(feedLog) = Len(reddit_endpoints)
       /\ generated # {}
       /\ \A t \in Range(servers) :
            /\ \E i \in Calls("install_remote", t) :
                 remoteLog[i].outcome # "exception"
            /\ \E i \in Calls("sync_remote", t) :
                 remoteLog[i].outcome # "exception"

\* Exit status 0 exactly on normal completion, 1 exactly on an interruption
\* or an uncaught exception; no step, remote call or feed request is made
\* twice.
ExitStatusMatchesOutcome ==
  /\ exitStatus \in {-1, 0, 1}
  /\ exitStatus # -1 <=> pc = "exited"
  /\ exitStatus = 0 <=> pc = "exited" /\ abort = "none"
  /\ exitStatus = 0 => FlowCompleted
  /\ exitStatus = 1 <=> abort \in {"interrupt", "error"}
  /\ abort = "error" <=> raisedAt # "none"
  /\ NoDup(steps)
  /\ NoDup([i \in DOMAIN feedLog |-> feedLog[i].feed])
  /\ NoDup([i \in DOMAIN remoteLog |->
              <<remoteLog[i].step, remoteLog[i].target, remoteLog[i].config>>])

\* No step undoes what an earlier step did.
NothingRolledBack ==
  /\ backupDirs \subseteq backupDirs'
  /\ backupFiles \subseteq backupFiles'
  /\ generated # {} => generated' = generated
  /\ printed # <<>> => printed' = printed
  /\ IsPrefix(steps, steps')
  /\ IsPrefix(remoteLog, remoteLog')
  /\ IsPrefix(feedLog, feedLog')
  /\ exitStatus # -1 => exitStatus' = exitStatus

\* C10: the process exits with status 0 exactly when the selected flow runs
\* to normal completion, and with status 1 when a user interruption or an
\* uncaught exception occurs at any point of the flow; no step is retried
\* and no effect of a completed step is rolled back.
C10_ExitStatusAndNoRollback ==
  [](ExitStatusMatchesOutcome) /\ [][NothingRolledBack]_vars

\* A full run ended with status 1 by an exception raised after the backup
\* and the generator had written their files, which are still there.
C10_Witness ==
  /\ exitStatus = 1
  /\ abort = "error"
  /\ raisedAt = "sync_remote"
  /\ backupFiles # {}
  /\ generated # {}

====
